---- MODULE Spec2Model ----
(***************************************************************************)
(* Model of the pull-request review pipeline:                              *)
(*   run (src/main.ts), CodeReviewServiceImpl.codeReviewFor and            *)
(*   CodeReviewServiceImpl.codeReviewForChunks                             *)
(*   (src/services/codeReviewService.ts).                                  *)
(* The external capabilities (file listing, language model, comment        *)
(* posting) are calls that are invoked, stay in flight and then return     *)
(* with success or failure, chosen nondeterministically.                   *)
(***************************************************************************)
EXTENDS Integers, Sequences, FiniteSets, TLC

\* ------------------------------------------------------------------ bounds
MaxFiles == 3
MaxLines == 3

\* ------------------------------------------------------------ value space
\* an optional value (undefined | value) is a sequence of length 0 or 1
None == <<>>
Some(x) == <<x>>

\* a filename is the sequence of its "."-separated segments
Filenames == {<<"Foo", "java">>, <<"Bar", "ts">>, <<"README", "md">>, <<"logo", "png">>}

\* the lines a per-file patch is made of: hunk headers and changes
HunkHeaders == {"@@ -1,2 +1,3 @@", "@@ -9,2 +10,3 @@"}
ChangeLines == {"+a", "-b"}
PatchLines == HunkHeaders \cup ChangeLines

\* the patches of the files of a pull request in a run: one hunk, two hunks
RunPatches == {<<"@@ -1,2 +1,3 @@", "+a">>,
               <<"@@ -1,2 +1,3 @@", "+a", "@@ -9,2 +10,3 @@", "-b">>}

RECURSIVE SeqsUpTo(_, _)
SeqsUpTo(S, n) ==
  IF n = 0 THEN {<<>>}
  ELSE LET shorter == SeqsUpTo(S, n - 1)
       IN  shorter \cup {Append(s, x) : s \in {t \in shorter : Len(t) = n - 1}, x \in S}

\* every patch text of at most MaxLines lines
ChunkPatches == SeqsUpTo(PatchLines, MaxLines)

EventNames == {"pull_request", "push", "pull_request_target"}

\* the values of the exclude_files input, as the items between the commas
ExcludeInputs == {<<"">>, <<" *.md">>}

VARIABLES
  eventName,      \* github.context.eventName
  prFiles,        \* the changed files of the pull request, in API order
  excludeInput,   \* core.getInput('exclude_files'), split at ','
  pc,             \* position of the program
  files,          \* the files Effect.forEach iterates
  cur,            \* index of the file (or chunk) being processed
  lang,           \* detected language of the current file
  retryState,     \* state of the retry policy around the model call
  detections,     \* the filenames detectLanguage was invoked with, in order
  calls,          \* every capability call made so far, in invocation order
  exit,           \* Exit of the effect, None while it runs
  failed,         \* the messages passed to core.setFailed
  fd,             \* parseDiff(file.patch)[0]
  results         \* results collected by Effect.all in codeReviewForChunks

vars == <<eventName, prFiles, excludeInput, pc, files, cur, lang, retryState,
          detections, calls, exit, failed, fd, results>>

\* ----------------------------------------------------------- pure helpers
Range(s) == {s[i] : i \in DOMAIN s}
SelectIdx(s, P(_)) == {i \in DOMAIN s : P(s[i])}

\* String.prototype.trim on an item of the exclude list
trim(item) ==
  CASE item = " *.md" -> "*.md"
    [] OTHER -> item

\* excludeFilePatterns without the trim of the items
excludeFilePatternsNoTrim(input) == input

\* core.getInput('exclude_files').split(',').map(_ => _.trim())
excludeFilePatterns(input) == [i \in DOMAIN input |-> trim(input[i])]

getFileExtension(filename) == filename[Len(filename)]

\* glob match of a path against one exclude pattern
matchesPattern(filename, pattern) ==
  CASE pattern = "*.md" -> getFileExtension(filename) = "md"
    [] OTHER -> FALSE

\* extension -> language table of the language detection service
extensionToLanguageMap ==
  [e \in {"java", "ts", "md"} |->
     CASE e = "java" -> "Java" [] e = "ts" -> "TypeScript" [] e = "md" -> "Markdown"]

\* LanguageDetectionService.detectLanguage: an Option, None fails the effect
detectLanguage(filename) ==
  LET ext == getFileExtension(filename)
  IN  IF ext \in DOMAIN extensionToLanguageMap
      THEN Some(extensionToLanguageMap[ext]) ELSE None

\* PullRequestService.getFilesForReview: the listed files not matching any
\* exclude pattern, in the listed order
getFilesForReview(listed, patterns) ==
  SelectSeq(listed, LAMBDA f : ~ \E i \in DOMAIN patterns : matchesPattern(f.filename, patterns[i]))

\* files.filter(file => file.patch !== undefined)
FilterPatchMut(fs) == fs
FilterPatch(fs) == SelectSeq(fs, LAMBDA f : f.patch # None)

\* the retry policy exponentialBackoffWithJitter(maxAttempts): after a failed
\* attempt, retry iff the attempt bound is not reached
shouldRetry(attempt, maxAttempts) == attempt < maxAttempts

\* the attempt bound codeReviewFor passes to exponentialBackoffWithJitter
RetryAttempts == 3

\* the base delay of the policy, and the divisor giving the largest jitter
\* as a fraction of the delay
Base == 2
JitterDivisor == 2

RECURSIVE Pow2(_)
Pow2(n) == IF n = 0 THEN 1 ELSE 2 * Pow2(n - 1)

\* the delay after the failed attempt number `attempt`, before the jitter
backoffDelay(attempt) == Base * Pow2(attempt - 1)

\* the jitter terms that may be added to a delay
Jitters(delay) == 0..(delay \div JitterDivisor)

\* the kinds of failure of the model capability
ErrorKinds == {"transient", "permanent"}

\* RetryState at the start of a wrapped call: attempt 1, nothing waited
FreshRetry == [attempt |-> 1, delays |-> <<>>, input |-> ""]

\* RetryState after the failure `kind` of attempt rs.attempt: the delay is
\* slept and the attempt incremented
retried(rs, kind, jitter) ==
  [attempt |-> rs.attempt + 1,
   delays |-> Append(rs.delays, [nominal |-> backoffDelay(rs.attempt), jitter |-> jitter]),
   input |-> kind]

\* RetryState after a failure that is not retried
gaveUp(rs, kind) == [rs EXCEPT !.input = kind]

\* parse-diff on the text of one file's patch
IsHunkHeader(line) == line \in HunkHeaders

RECURSIVE parseLines(_, _)
parseLines(lines, chunks) ==
  IF lines = <<>> THEN chunks
  ELSE LET l == Head(lines)
       IN  IF IsHunkHeader(l)
           THEN parseLines(Tail(lines), Append(chunks, [content |-> <<l>>, changes |-> <<>>]))
           ELSE IF chunks = <<>>
           THEN parseLines(Tail(lines), chunks)
           ELSE parseLines(Tail(lines),
                           [chunks EXCEPT ![Len(chunks)].changes = Append(@, l)])

\* parseDiff(input): the files of the diff; no input or no hunk, no file
parseDiff(patch) ==
  IF patch = None \/ patch[1] = <<>> THEN <<>>
  ELSE LET cs == parseLines(patch[1], <<>>)
       IN  IF cs = <<>> THEN <<>> ELSE <<[chunks |-> cs]>>

\* first element of an array, undefined when it is empty
First(arr) == IF arr = <<>> THEN None ELSE Some(arr[1])

\* ----------------------------------------------------------------- exits
Success == Some([tag |-> "Success", error |-> <<>>])
Fail(e) == Some([tag |-> "Fail", error |-> e])
Die(e) == Some([tag |-> "Die", error |-> e])

\* result.cause.toString()
CauseToString(cause) == <<cause.tag, cause.error>>

\* `This action only works on pull_request events. Got: ${eventName}`
OnlyPullRequestMessage(name) ==
  <<"This action only works on pull_request events. Got: ", name>>

\* ------------------------------------------------------------------ calls
Call(op, idx, l, diff, path, body) ==
  [op |-> op, idx |-> idx, lang |-> l, diff |-> diff, path |-> path,
   body |-> body, status |-> "inflight", value |-> <<>>]

\* a call returns: the model returns a text no other call returned, a failed
\* call an error no other call raised
Returned(n, status) ==
  [calls EXCEPT ![n].status = status,
                ![n].value = IF status = "ok" THEN <<"text", n>> ELSE <<"error", n>>]

CallsOf(op) == SelectIdx(calls, LAMBDA c : c.op = op)
CallsFor(op, i) == SelectIdx(calls, LAMBDA c : c.op = op /\ c.idx = i)
InFlight == SelectIdx(calls, LAMBDA c : c.status = "inflight")
LastCall == Len(calls)

\* ------------------------------------------------------------------- Init
ChangedFiles ==
  [filename : Filenames, patch : {None} \cup {Some(p) : p \in RunPatches}]

DistinctNames(fs) == \A i, j \in DOMAIN fs : i # j => fs[i].filename # fs[j].filename

FileLists == {fs \in SeqsUpTo(ChangedFiles, MaxFiles) : DistinctNames(fs)}

Init ==
  /\ eventName \in EventNames
  /\ prFiles \in FileLists
  /\ excludeInput \in ExcludeInputs
  /\ pc = "match"
  /\ files = <<>>
  /\ cur = 0
  /\ lang = ""
  /\ retryState = [attempt |-> 0, delays |-> <<>>, input |-> ""]
  /\ detections = <<>>
  /\ calls = <<>>
  /\ exit = None
  /\ failed = <<>>
  /\ fd = None
  /\ results = <<>>

inputs == <<eventName, prFiles, excludeInput>>

\* ------------------------------------------------------------------- run
\* MatchEvent with the pull_request branch taken for every event but push
MatchEventMut ==
  /\ pc = "match"
  /\ IF eventName # "push"
     THEN /\ pc' = "list"
          /\ UNCHANGED <<exit, failed>>
     ELSE /\ failed' = Append(failed, OnlyPullRequestMessage(eventName))
          /\ exit' = Success
          /\ pc' = "exit"
  /\ UNCHANGED <<inputs, detections, files, cur, lang, retryState, calls, fd, results>>

\* Match.value(context.eventName): the pull_request branch builds the
\* pipeline, any other event only marks the run failed
MatchEvent ==
  /\ pc = "match"
  /\ IF eventName = "pull_request"
     THEN /\ pc' = "list"
          /\ UNCHANGED <<exit, failed>>
     ELSE /\ failed' = Append(failed, OnlyPullRequestMessage(eventName))
          /\ exit' = Success
          /\ pc' = "exit"
  /\ UNCHANGED <<inputs, detections, files, cur, lang, retryState, calls, fd, results>>

\* pullRequestService.getFilesForReview(owner, repo, number, filePattens)
ListInvoke ==
  /\ pc = "list"
  /\ calls' = Append(calls, Call("list", 0, "", None, <<>>, <<>>))
  /\ pc' = "await_list"
  /\ UNCHANGED <<inputs, detections, files, cur, lang, retryState, exit, failed, fd, results>>

\* the listing returns; the files with a patch are the ones iterated
ListSucceed ==
  /\ pc = "await_list"
  /\ calls' = Returned(LastCall, "ok")
  /\ files' = FilterPatch(getFilesForReview(prFiles, excludeFilePatterns(excludeInput)))
  /\ cur' = 1
  /\ pc' = "file"
  /\ UNCHANGED <<inputs, detections, lang, retryState, exit, failed, fd, results>>

ListFail ==
  /\ pc = "await_list"
  /\ calls' = Returned(LastCall, "err")
  /\ exit' = Fail(<<"error", LastCall>>)
  /\ pc' = "exit"
  /\ UNCHANGED <<inputs, detections, files, cur, lang, retryState, failed, fd, results>>

\* Effect.forEach is past the last file: the pipeline succeeds
ForEachDone ==
  /\ pc = "file"
  /\ cur > Len(files)
  /\ exit' = Success
  /\ pc' = "exit"
  /\ UNCHANGED <<inputs, detections, files, cur, lang, retryState, calls, failed, fd, results>>

\* the times detectLanguage was invoked with a filename
DetectionsOf(name) == {k \in DOMAIN detections : detections[k] = name}

\* DetectLanguage with the detection inside the retried effect
DetectLanguageRetried ==
  /\ pc = "file"
  /\ cur <= Len(files)
  /\ LET detected == detectLanguage(files[cur].filename)
         attempt == Cardinality(DetectionsOf(files[cur].filename)) + 1
     IN  IF detected = None
         THEN IF shouldRetry(attempt, RetryAttempts)
              THEN UNCHANGED <<pc, exit, lang, retryState>>
              ELSE /\ exit' = Fail(<<"NoSuchElementException">>)
                   /\ pc' = "exit"
                   /\ UNCHANGED <<lang, retryState>>
         ELSE /\ lang' = detected[1]
              /\ retryState' = FreshRetry
              /\ pc' = "model"
              /\ UNCHANGED exit
  /\ detections' = Append(detections, files[cur].filename)
  /\ UNCHANGED <<inputs, files, cur, calls, failed, fd, results>>

\* DetectLanguage with the retry state kept from the previous file
DetectLanguageSharedRetry ==
  /\ pc = "file"
  /\ cur <= Len(files)
  /\ LET detected == detectLanguage(files[cur].filename)
     IN  IF detected = None
         THEN /\ exit' = Fail(<<"NoSuchElementException">>)
              /\ pc' = "exit"
              /\ UNCHANGED <<lang, retryState>>
         ELSE /\ lang' = detected[1]
              /\ retryState' = IF retryState.attempt = 0 THEN FreshRetry ELSE retryState
              /\ pc' = "model"
              /\ UNCHANGED exit
  /\ detections' = Append(detections, files[cur].filename)
  /\ UNCHANGED <<inputs, files, cur, calls, failed, fd, results>>

\* codeReviewFor(file): detect the language, then enter the retried call
DetectLanguage ==
  /\ pc = "file"
  /\ cur <= Len(files)
  /\ LET detected == detectLanguage(files[cur].filename)
     IN  IF detected = None
         THEN /\ exit' = Fail(<<"NoSuchElementException">>)
              /\ pc' = "exit"
              /\ UNCHANGED <<lang, retryState>>
         ELSE /\ lang' = detected[1]
              /\ retryState' = FreshRetry
              /\ pc' = "model"
              /\ UNCHANGED exit
  /\ detections' = Append(detections, files[cur].filename)
  /\ UNCHANGED <<inputs, files, cur, calls, failed, fd, results>>

\* ModelInvoke sending the patch of the first file for every file
ModelInvokeMut ==
  /\ pc = "model"
  /\ calls' = Append(calls, Call("model", cur, lang, files[1].patch, <<>>, <<>>))
  /\ pc' = "await_model"
  /\ UNCHANGED <<inputs, detections, files, cur, lang, retryState, exit, failed, fd, results>>

\* Effect.tryPromise(() => this.chain.call({ lang, diff: file.patch }))
ModelInvoke ==
  /\ pc = "model"
  /\ calls' = Append(calls, Call("model", cur, lang, files[cur].patch, <<>>, <<>>))
  /\ pc' = "await_model"
  /\ UNCHANGED <<inputs, detections, files, cur, lang, retryState, exit, failed, fd, results>>

\* ModelSucceed under a policy that repeats the call after a success too
ModelSucceedMut ==
  /\ pc = "await_model"
  /\ calls' = Returned(LastCall, "ok")
  /\ IF shouldRetry(retryState.attempt, RetryAttempts)
     THEN /\ retryState' = retried(retryState, "", 0)
          /\ pc' = "model"
     ELSE /\ pc' = "post"
          /\ UNCHANGED retryState
  /\ UNCHANGED <<inputs, detections, files, cur, lang, exit, failed, fd, results>>

\* the model call succeeds: the review goes to the comment step
ModelSucceed ==
  /\ pc = "await_model"
  /\ calls' = Returned(LastCall, "ok")
  /\ pc' = "post"
  /\ UNCHANGED <<inputs, detections, files, cur, lang, retryState, exit, failed, fd, results>>

\* ModelFail with the attempt bound off by one
ModelFailOffByOne ==
  /\ pc = "await_model"
  /\ calls' = Returned(LastCall, "err")
  /\ \E kind \in ErrorKinds :
       IF shouldRetry(retryState.attempt + 1, RetryAttempts)
       THEN /\ \E jitter \in Jitters(backoffDelay(retryState.attempt)) :
                 retryState' = retried(retryState, kind, jitter)
            /\ pc' = "model"
            /\ UNCHANGED exit
       ELSE /\ retryState' = gaveUp(retryState, kind)
            /\ exit' = Fail(<<"error", LastCall>>)
            /\ pc' = "exit"
  /\ UNCHANGED <<inputs, detections, files, cur, lang, failed, fd, results>>

\* ModelFail with the last error turned into the review instead of a failure
ModelFailSwallowed ==
  /\ pc = "await_model"
  /\ calls' = Returned(LastCall, "err")
  /\ \E kind \in ErrorKinds :
       IF shouldRetry(retryState.attempt, RetryAttempts)
       THEN /\ \E jitter \in Jitters(backoffDelay(retryState.attempt)) :
                 retryState' = retried(retryState, kind, jitter)
            /\ pc' = "model"
       ELSE /\ retryState' = gaveUp(retryState, kind)
            /\ pc' = "post"
  /\ UNCHANGED <<inputs, detections, files, cur, lang, exit, failed, fd, results>>

\* ModelFail retried without counting the attempt
ModelFailNotCounted ==
  /\ pc = "await_model"
  /\ calls' = Returned(LastCall, "err")
  /\ \E kind \in ErrorKinds :
       IF shouldRetry(retryState.attempt, RetryAttempts)
       THEN /\ retryState' = [retryState EXCEPT !.input = kind]
            /\ pc' = "model"
            /\ UNCHANGED exit
       ELSE /\ retryState' = gaveUp(retryState, kind)
            /\ exit' = Fail(<<"error", LastCall>>)
            /\ pc' = "exit"
  /\ UNCHANGED <<inputs, detections, files, cur, lang, failed, fd, results>>

\* ModelFail retrying transient failures only
ModelFailTransientOnly ==
  /\ pc = "await_model"
  /\ calls' = Returned(LastCall, "err")
  /\ \E kind \in ErrorKinds :
       IF kind = "transient" /\ shouldRetry(retryState.attempt, RetryAttempts)
       THEN /\ \E jitter \in Jitters(backoffDelay(retryState.attempt)) :
                 retryState' = retried(retryState, kind, jitter)
            /\ pc' = "model"
            /\ UNCHANGED exit
       ELSE /\ retryState' = gaveUp(retryState, kind)
            /\ exit' = Fail(<<"error", LastCall>>)
            /\ pc' = "exit"
  /\ UNCHANGED <<inputs, detections, files, cur, lang, failed, fd, results>>

\* ModelFail retried under a schedule with a constant spacing
ModelFailSpaced ==
  /\ pc = "await_model"
  /\ calls' = Returned(LastCall, "err")
  /\ \E kind \in ErrorKinds :
       IF shouldRetry(retryState.attempt, RetryAttempts)
       THEN /\ \E jitter \in Jitters(Base) :
                 retryState' = [attempt |-> retryState.attempt + 1,
                                delays |-> Append(retryState.delays,
                                                  [nominal |-> Base, jitter |-> jitter]),
                                input |-> kind]
            /\ pc' = "model"
            /\ UNCHANGED exit
       ELSE /\ retryState' = gaveUp(retryState, kind)
            /\ exit' = Fail(<<"error", LastCall>>)
            /\ pc' = "exit"
  /\ UNCHANGED <<inputs, detections, files, cur, lang, failed, fd, results>>

\* the model call fails with an error of some kind: Effect.retry sleeps the
\* backoff delay and repeats the call within the attempt bound, otherwise
\* the last error is the failure of codeReviewFor
ModelFail ==
  /\ pc = "await_model"
  /\ calls' = Returned(LastCall, "err")
  /\ \E kind \in ErrorKinds :
       IF shouldRetry(retryState.attempt, RetryAttempts)
       THEN /\ \E jitter \in Jitters(backoffDelay(retryState.attempt)) :
                 retryState' = retried(retryState, kind, jitter)
            /\ pc' = "model"
            /\ UNCHANGED exit
       ELSE /\ retryState' = gaveUp(retryState, kind)
            /\ exit' = Fail(<<"error", LastCall>>)
            /\ pc' = "exit"
  /\ UNCHANGED <<inputs, detections, files, cur, lang, failed, fd, results>>

\* the review of the current file: the value of its last model call
Review == [text |-> calls[LastCall].value]

\* PostInvoke that does not await the posting before the next file
PostInvokeNotAwaited ==
  /\ pc = "post"
  /\ calls' = Append(calls, Call("post", cur, "", None, files[cur].filename, Review.text))
  /\ cur' = cur + 1
  /\ pc' = "file"
  /\ UNCHANGED <<inputs, detections, files, lang, retryState, exit, failed, fd, results>>

\* pullRequestService.createReviewComment({path: file.filename, body: res.text})
PostInvoke ==
  /\ pc = "post"
  /\ calls' = Append(calls, Call("post", cur, "", None, files[cur].filename, Review.text))
  /\ pc' = "await_post"
  /\ UNCHANGED <<inputs, detections, files, cur, lang, retryState, exit, failed, fd, results>>

\* the comment is posted: Effect.forEach goes on to the next file
PostSucceed ==
  /\ pc = "await_post"
  /\ calls' = Returned(LastCall, "ok")
  /\ cur' = cur + 1
  /\ pc' = "file"
  /\ UNCHANGED <<inputs, detections, files, lang, retryState, exit, failed, fd, results>>

\* PostFail with the posting tried again
PostFailRetried ==
  /\ pc = "await_post"
  /\ calls' = [Returned(LastCall, "err") EXCEPT ![LastCall].value = calls[LastCall].body]
  /\ pc' = "post"
  /\ UNCHANGED <<inputs, detections, files, cur, lang, retryState, exit, failed, fd, results>>

\* PostFail with the failure caught per file and the loop going on
PostFailMut ==
  /\ pc = "await_post"
  /\ calls' = Returned(LastCall, "err")
  /\ cur' = cur + 1
  /\ pc' = "file"
  /\ UNCHANGED <<inputs, detections, files, lang, retryState, exit, failed, fd, results>>

\* the posting fails: the failure ends Effect.forEach
PostFail ==
  /\ pc = "await_post"
  /\ calls' = Returned(LastCall, "err")
  /\ exit' = Fail(<<"error", LastCall>>)
  /\ pc' = "exit"
  /\ UNCHANGED <<inputs, detections, files, cur, lang, retryState, failed, fd, results>>

\* Finish without the report of a failure to the host
FinishIgnoringFailure ==
  /\ pc = "exit"
  /\ failed' = failed
  /\ pc' = "done"
  /\ UNCHANGED <<inputs, detections, files, cur, lang, retryState, calls, exit, fd, results>>

\* Finish removing the comments of the run when it failed
FinishRollingBack ==
  /\ pc = "exit"
  /\ failed' = IF exit[1].tag # "Success"
               THEN Append(failed, CauseToString(exit[1]))
               ELSE failed
  /\ calls' = IF exit[1].tag # "Success"
              THEN SelectSeq(calls, LAMBDA c : c.op # "post")
              ELSE calls
  /\ pc' = "done"
  /\ UNCHANGED <<inputs, detections, files, cur, lang, retryState, exit, fd, results>>

\* await Effect.runPromiseExit(runnable); a failure marks the run failed
Finish ==
  /\ pc = "exit"
  /\ failed' = IF exit[1].tag # "Success"
               THEN Append(failed, CauseToString(exit[1]))
               ELSE failed
  /\ pc' = "done"
  /\ UNCHANGED <<inputs, detections, files, cur, lang, retryState, calls, exit, fd, results>>

Next ==
  \/ MatchEvent
  \/ ListInvoke
  \/ ListSucceed
  \/ ListFail
  \/ ForEachDone
  \/ DetectLanguage
  \/ ModelInvoke
  \/ ModelSucceed
  \/ ModelFail
  \/ PostInvoke
  \/ PostSucceed
  \/ PostFail
  \/ Finish

Spec == Init /\ [][Next]_vars

\* the run under the assumption that the program is stepped to its end and
\* every capability call returns: a step that stays possible is taken
FairSpec == Spec /\ WF_vars(Next)

\* ---------------------------------------------------- codeReviewForChunks
\* the file codeReviewForChunks is called with
ChunkFiles ==
  [filename : Filenames, patch : {None} \cup {Some(p) : p \in ChunkPatches}]

InitChunks ==
  /\ eventName = "pull_request"
  /\ prFiles \in {<<f>> : f \in ChunkFiles}
  /\ excludeInput = <<"">>
  /\ pc = "chunks"
  /\ files = prFiles
  /\ cur = 1
  /\ lang = ""
  /\ retryState = [attempt |-> 0, delays |-> <<>>, input |-> ""]
  /\ detections = <<>>
  /\ calls = <<>>
  /\ exit = None
  /\ failed = <<>>
  /\ fd = None
  /\ results = <<>>

\* the chunks the per-chunk requests are built from
Chunks == IF fd = None THEN <<>> ELSE fd[1].chunks

\* ChunksBegin reading the chunks as fd?.chunks ?? []
ChunksBeginMut ==
  /\ pc = "chunks"
  /\ LET detected == detectLanguage(files[1].filename)
         parsed == First(parseDiff(files[1].patch))
     IN  IF detected = None
         THEN /\ exit' = Fail(<<"NoSuchElementException">>)
              /\ pc' = "returned"
              /\ UNCHANGED <<lang, fd>>
         ELSE /\ lang' = detected[1]
              /\ fd' = IF parsed = None THEN Some([chunks |-> <<>>]) ELSE parsed
              /\ pc' = "chunk"
              /\ UNCHANGED exit
  /\ detections' = Append(detections, files[1].filename)
  /\ UNCHANGED <<inputs, files, cur, retryState, calls, failed, results>>

\* Effect.all([programmingLanguage, fileDiff]) and the start of the flatMap
\* over its result: reading fd.chunks of an undefined fd throws
ChunksBegin ==
  /\ pc = "chunks"
  /\ LET detected == detectLanguage(files[1].filename)
         parsed == First(parseDiff(files[1].patch))
     IN  IF detected = None
         THEN /\ exit' = Fail(<<"NoSuchElementException">>)
              /\ pc' = "returned"
              /\ UNCHANGED <<lang, fd>>
         ELSE /\ lang' = detected[1]
              /\ fd' = parsed
              /\ IF parsed = None
                 THEN /\ exit' = Die(<<"TypeError">>)
                      /\ pc' = "returned"
                 ELSE /\ pc' = "chunk"
                      /\ UNCHANGED exit
  /\ detections' = Append(detections, files[1].filename)
  /\ UNCHANGED <<inputs, files, cur, retryState, calls, failed, results>>

\* Effect.tryPromise(() => this.chain.call({ lang, diff: chunk.content }))
ChunkInvoke ==
  /\ pc = "chunk"
  /\ cur <= Len(Chunks)
  /\ calls' = Append(calls, Call("model", cur, lang, Some(Chunks[cur].content), <<>>, <<>>))
  /\ pc' = "await_chunk"
  /\ UNCHANGED <<inputs, detections, files, cur, lang, retryState, exit, failed, fd, results>>

\* ChunkSucceed collecting the values latest first
ChunkSucceedMut ==
  /\ pc = "await_chunk"
  /\ calls' = Returned(LastCall, "ok")
  /\ results' = <<[text |-> <<"text", LastCall>>]>> \o results
  /\ cur' = cur + 1
  /\ pc' = "chunk"
  /\ UNCHANGED <<inputs, detections, files, lang, retryState, exit, failed, fd>>

\* the chunk's call succeeds: Effect.all collects its value and goes on
ChunkSucceed ==
  /\ pc = "await_chunk"
  /\ calls' = Returned(LastCall, "ok")
  /\ results' = Append(results, [text |-> <<"text", LastCall>>])
  /\ cur' = cur + 1
  /\ pc' = "chunk"
  /\ UNCHANGED <<inputs, detections, files, lang, retryState, exit, failed, fd>>

\* ChunkFail with the failed chunk left out and the others still reviewed
ChunkFailSkipped ==
  /\ pc = "await_chunk"
  /\ calls' = Returned(LastCall, "err")
  /\ cur' = cur + 1
  /\ pc' = "chunk"
  /\ UNCHANGED <<inputs, detections, files, lang, retryState, exit, failed, fd, results>>

\* the chunk's call fails: Effect.all fails with that error
ChunkFail ==
  /\ pc = "await_chunk"
  /\ calls' = Returned(LastCall, "err")
  /\ exit' = Fail(<<"error", LastCall>>)
  /\ pc' = "returned"
  /\ UNCHANGED <<inputs, detections, files, cur, lang, retryState, failed, fd, results>>

\* Effect.all is past the last chunk: the collected values are the result
ChunksDone ==
  /\ pc = "chunk"
  /\ cur > Len(Chunks)
  /\ exit' = Success
  /\ pc' = "returned"
  /\ UNCHANGED <<inputs, detections, files, cur, lang, retryState, calls, failed, fd, results>>

NextChunks ==
  \/ ChunksBegin
  \/ ChunkInvoke
  \/ ChunkSucceed
  \/ ChunkFail
  \/ ChunksDone

SpecChunks == InitChunks /\ [][NextChunks]_vars

\* ======================================================== checked claims
Max(S) == CHOOSE x \in S : \A y \in S : y <= x
Errs(S) == {n \in S : calls[n].status = "err"}
Oks(S) == {n \in S : calls[n].status = "ok"}
ExitFailed == exit # None /\ exit[1].tag # "Success"

\* the call n is the point where the review of a file fails (its third
\* failed model attempt) or where the posting of its comment fails
ReviewFailedBy(n) ==
  /\ calls[n].op = "model"
  /\ calls[n].status = "err"
  /\ Cardinality(Errs({m \in CallsFor("model", calls[n].idx) : m <= n})) = 3
PostFailedBy(n) == calls[n].op = "post" /\ calls[n].status = "err"
FailurePoint(n) == ReviewFailedBy(n) \/ PostFailedBy(n)

C1_State ==
  eventName = "pull_request" =>
    /\ \A n \in DOMAIN calls :
         FailurePoint(n) =>
           /\ n = Len(calls)
           /\ pc \in {"exit", "done"}
           /\ exit = Fail(calls[n].value)
           /\ pc = "done" => failed = <<CauseToString(exit[1])>>
    /\ ExitFailed => pc \in {"exit", "done"} /\ InFlight = {}

\* C1: in a pull_request run, the call at which the review of a file or the
\* posting of its comment fails is the last capability call of the run (no
\* model invocation and no posting follows for any later file), and the run
\* ends marked failed with that failure as its cause.
C1_FailFast ==
  /\ []C1_State
  /\ [][ExitFailed => calls' = calls /\ exit' = exit]_vars

C1_Witness ==
  /\ pc = "done"
  /\ \E n \in DOMAIN calls :
       /\ FailurePoint(n)
       /\ calls[n].idx < Len(files)
  /\ \E n \in DOMAIN calls : PostFailedBy(n)
  /\ Len(failed) = 1

\* C2: when the model call of a file fails on every attempt, the model was
\* invoked exactly 3 times for that file, never more, and the failure of the
\* run is the error of the last of these attempts.
C2_AlwaysFailing ==
  \A i \in DOMAIN files :
    LET ms == CallsFor("model", i)
    IN  /\ Cardinality(ms) <= 3
        /\ (exit # None /\ ms # {} /\ Errs(ms) = ms) =>
             /\ Cardinality(ms) = 3
             /\ exit = Fail(<<"error", Max(ms)>>)
             /\ calls[Max(ms)].value = <<"error", Max(ms)>>

C2_Witness ==
  /\ pc = "exit"
  /\ \E i \in DOMAIN files :
       /\ Cardinality(CallsFor("model", i)) = 3
       /\ Errs(CallsFor("model", i)) = CallsFor("model", i)

\* C3: a successful model call of a file is its k-th call, k <= 3, preceded
\* by k-1 failed ones; no model call for the file follows it, and the body of
\* the comment posted for the file is the text that call returned.
C3_SucceedsOnAttemptK ==
  \A i \in DOMAIN files :
    LET ms == CallsFor("model", i)
    IN  \A m \in Oks(ms) :
          /\ m = Max(ms)
          /\ Cardinality(ms) \in 1..3
          /\ Errs(ms) = ms \ {m}
          /\ \A p \in CallsFor("post", i) : calls[p].body = <<"text", m>>
          /\ calls[m].value = <<"text", m>>
          /\ (i < cur \/ pc \in {"exit", "done"}) => CallsFor("post", i) # {}

C3_Witness ==
  /\ pc = "done"
  /\ \A k \in 1..3 :
       \E i \in DOMAIN files :
         /\ Cardinality(CallsFor("model", i)) = k
         /\ Oks(CallsFor("post", i)) # {}

\* C4: when the model failed three times for a file, the comment-posting
\* capability is not invoked for that file, and the run ends failed: the
\* host is marked failed with the failure cause.
C4_NoCommentAfterExhaustion ==
  \A i \in DOMAIN files :
    Cardinality(Errs(CallsFor("model", i))) = 3 =>
      /\ CallsFor("post", i) = {}
      /\ ExitFailed
      /\ pc \in {"exit", "done"}
      /\ pc = "done" => failed = <<CauseToString(exit[1])>>

C4_Witness ==
  /\ pc = "done"
  /\ failed # <<>>
  /\ \E i \in DOMAIN files :
       /\ i > 1
       /\ Cardinality(Errs(CallsFor("model", i))) = 3
       /\ CallsFor("post", i) = {}

\* the calls of a kind made for the file of a given name
CallsForName(op, name) ==
  SelectIdx(calls, LAMBDA c : c.op = op /\ c.idx \in DOMAIN files
                               /\ files[c.idx].filename = name)
PostsTo(name) == SelectIdx(calls, LAMBDA c : c.op = "post" /\ c.path = name)
Excluded(f) == getFileExtension(f.filename) = "md" /\ excludeInput = <<" *.md">>
Clean == pc = "done" /\ exit = Success /\ eventName = "pull_request"

\* C5: for a changed file whose patch is absent, the model is never invoked
\* and no comment is posted; in a run that ends without failure, the files
\* with a patch in the same list (not excluded by a pattern) each got a model
\* request carrying their patch and a comment.
C5_AbsentPatchSkipped ==
  /\ \A j \in DOMAIN prFiles :
       prFiles[j].patch = None =>
         /\ CallsForName("model", prFiles[j].filename) = {}
         /\ PostsTo(prFiles[j].filename) = {}
  /\ \A n \in CallsOf("model") : calls[n].diff # None
  /\ Clean =>
       \A j \in DOMAIN prFiles :
         (prFiles[j].patch # None /\ ~Excluded(prFiles[j])) =>
           /\ \E n \in CallsForName("model", prFiles[j].filename) :
                calls[n].diff = prFiles[j].patch
           /\ Oks(PostsTo(prFiles[j].filename)) # {}

C5_Witness ==
  /\ Clean
  /\ Len(prFiles) >= 2
  /\ prFiles[1].patch = None
  /\ ~Excluded(prFiles[1])
  /\ prFiles[2].patch # None
  /\ Oks(PostsTo(prFiles[2].filename)) # {}

\* C6: when the event is not pull_request, no capability (file listing,
\* model, comment posting) is ever invoked, and the run ends marked failed
\* with one message, which contains the received event name.
C6_OtherEvent ==
  eventName # "pull_request" =>
    /\ calls = <<>>
    /\ pc \in {"match", "exit", "done"}
    /\ pc # "match" =>
         /\ Len(failed) = 1
         /\ eventName \in Range(failed[1])

C6_Witness ==
  /\ pc = "done"
  /\ eventName = "pull_request_target"
  /\ prFiles # <<>>
  /\ failed = <<OnlyPullRequestMessage("pull_request_target")>>

\* C7: in a run where every capability call succeeded, each listed file with
\* a patch has exactly one comment, whose path is its filename and whose
\* body is the text of the one model call made for that file, which carried
\* that file's patch; no other comment is posted.
Reviewable ==
  {j \in DOMAIN prFiles : prFiles[j].patch # None /\ ~Excluded(prFiles[j])}

C7_OneCommentPerFile ==
  (Clean /\ Oks(DOMAIN calls) = DOMAIN calls) =>
    /\ Cardinality(CallsOf("post")) = Cardinality(Reviewable)
    /\ \A j \in Reviewable :
         LET name == prFiles[j].filename
             ps == PostsTo(name)
             ms == CallsForName("model", name)
         IN  /\ Cardinality(ps) = 1
             /\ Cardinality(ms) = 1
             /\ \A p \in ps, m \in ms :
                  /\ calls[m].diff = prFiles[j].patch
                  /\ calls[m].lang = detectLanguage(name)[1]
                  /\ calls[p].body = calls[m].value
                  /\ calls[p].body = <<"text", m>>
                  /\ m < p

C7_Witness ==
  /\ Clean
  /\ Oks(DOMAIN calls) = DOMAIN calls
  /\ Cardinality(CallsOf("post")) = 2
  /\ Len(files) = 2
  /\ Len(parseLines(files[1].patch[1], <<>>)) = 1
  /\ Len(parseLines(files[2].patch[1], <<>>)) = 2

\* C8: the calls for the files are made one file at a time in the listed
\* order: a call is invoked only when every earlier call has returned, the
\* calls of a file come before those of the files after it, and the first
\* model call of a file comes after the comment of the previous file was
\* posted.
C8_OneFileAtATime ==
  /\ \A n \in InFlight : n = Len(calls)
  /\ \A m, n \in CallsOf("model") \cup CallsOf("post") :
       m < n => calls[m].idx <= calls[n].idx
  /\ \A n \in CallsOf("model") :
       calls[n].idx > 1 =>
         \E p \in Oks(CallsFor("post", calls[n].idx - 1)) : p < n
  /\ \A p \in CallsOf("post") :
       \E m \in Oks(CallsFor("model", calls[p].idx)) : m < p
  /\ \A a, b \in DOMAIN files :
       a < b => \E x, y \in DOMAIN prFiles :
                  x < y /\ prFiles[x] = files[a] /\ prFiles[y] = files[b]

C8_Witness ==
  /\ pc = "await_model"
  /\ cur = 2
  /\ Errs(CallsFor("model", 1)) # {}
  /\ Errs(CallsFor("model", 2)) # {}
  /\ InFlight = {Len(calls)}

\* the hunk header lines of the patch codeReviewForChunks is called with
HunkLines ==
  IF files[1].patch = None THEN <<>>
  ELSE SelectSeq(files[1].patch[1], LAMBDA l : l \in HunkHeaders)

\* C9: when codeReviewForChunks succeeds on a patch with H hunks, exactly H
\* model requests were issued, the i-th carrying the detected language and
\* the content of the i-th hunk, and H results are returned, the i-th being
\* the response to the i-th request.
C9_ChunkResultsInOrder ==
  (pc = "returned" /\ exit = Success) =>
    LET H == Len(HunkLines)
    IN  /\ Len(calls) = H
        /\ Len(results) = H
        /\ \A i \in 1..H :
             /\ calls[i].op = "model"
             /\ calls[i].diff = Some(<<HunkLines[i]>>)
             /\ calls[i].lang = detectLanguage(files[1].filename)[1]
             /\ calls[i].status = "ok"
             /\ results[i].text = calls[i].value
             /\ results[i].text = <<"text", i>>

C9_Witness ==
  /\ pc = "returned"
  /\ exit = Success
  /\ Len(results) = 3
  /\ HunkLines[1] # HunkLines[2]

\* C10: when the patch is absent or has no hunk (the parser yields no file
\* entry), codeReviewForChunks issues no model request and ends in failure:
\* it never succeeds with an empty sequence of results.
C10_NoFileEntryFails ==
  HunkLines = <<>> =>
    /\ calls = <<>>
    /\ pc = "returned" => ExitFailed
    /\ exit # Success

C10_Witness ==
  /\ pc = "returned"
  /\ files[1].patch \in {None, Some(<<>>)}
  /\ exit = Die(<<"TypeError">>)

\* C11: for a file whose language detection fails, the model is never
\* invoked and no comment is posted, the detection is invoked at most once
\* (it is not retried), and once it was invoked the run has failed with the
\* detection failure.
C11_DetectionFailure ==
  \A i \in DOMAIN files :
    detectLanguage(files[i].filename) = None =>
      /\ CallsFor("model", i) = {}
      /\ CallsFor("post", i) = {}
      /\ Cardinality(DetectionsOf(files[i].filename)) <= 1
      /\ DetectionsOf(files[i].filename) # {} =>
           /\ exit = Fail(<<"NoSuchElementException">>)
           /\ pc \in {"exit", "done"}
           /\ cur = i
           /\ pc = "done" => failed = <<CauseToString(exit[1])>>

C11_Witness ==
  /\ pc = "done"
  /\ Len(files) >= 2
  /\ cur = 2
  /\ detectLanguage(files[2].filename) = None
  /\ detections = <<files[1].filename, files[2].filename>>
  /\ Oks(CallsFor("post", 1)) # {}
  /\ exit = Fail(<<"NoSuchElementException">>)

\* C12: the retry state belongs to one wrapped call: the first model call of
\* every file is attempt 1 with nothing waited, the attempts and delays of
\* the retry state are those of the current file alone, the first delay of
\* every file is the base delay, and a file's review fails on a model error
\* only at its own third attempt, whatever earlier files consumed.
C12_RetryStateReset ==
  /\ (pc \in {"model", "await_model"}) =>
       LET ms == CallsFor("model", cur)
       IN  /\ retryState.attempt = Cardinality(Errs(ms)) + 1
           /\ Len(retryState.delays) = Cardinality(Errs(ms))
           /\ ms = {} => retryState = [attempt |-> 1, delays |-> <<>>, input |-> ""]
           /\ retryState.delays # <<>> => retryState.delays[1].nominal = Base
  /\ \A n \in CallsOf("model") :
       exit = Fail(<<"error", n>>) =>
         Cardinality(CallsFor("model", calls[n].idx)) = 3

C12_Witness ==
  /\ pc = "await_model"
  /\ cur = 2
  /\ Cardinality(CallsFor("model", 1)) = 3
  /\ Cardinality(CallsFor("model", 2)) = 3
  /\ retryState.attempt = 3
  /\ retryState.delays[1].nominal = Base

\* C13: attempt 1 of a wrapped call is made with no delay; the wait before
\* attempt a+1 is Base * 2^(a-1) plus a jitter between 0 and that value
\* divided by JitterDivisor, so each delay before the jitter is twice the
\* previous one.
C13_BackoffDelays ==
  LET ds == retryState.delays
  IN  /\ (pc \in {"model", "await_model"}) => Len(ds) = retryState.attempt - 1
      /\ (pc \in {"model", "await_model"} /\ retryState.attempt = 1) => ds = <<>>
      /\ Len(ds) <= 2
      /\ \A a \in DOMAIN ds :
           /\ ds[a].nominal = (IF a = 1 THEN Base ELSE 2 * Base)
           /\ ds[a].jitter >= 0
           /\ ds[a].jitter * JitterDivisor <= ds[a].nominal
           /\ a > 1 => ds[a].nominal = 2 * ds[a - 1].nominal

C13_Witness ==
  /\ pc = "model"
  /\ retryState.attempt = 3
  /\ Len(retryState.delays) = 2
  /\ retryState.delays[1].jitter = 0
  /\ retryState.delays[2].jitter > 0

\* C14: a file whose path matches an exclude pattern is never passed to the
\* language detection or the model and gets no comment; in a run without
\* failure over two files with a patch of which exactly one matches the
\* pattern, exactly one file is reviewed and exactly one comment is posted,
\* for the file that does not match.
C14_ExcludedNeverReviewed ==
  /\ \A j \in DOMAIN prFiles :
       Excluded(prFiles[j]) =>
         /\ CallsForName("model", prFiles[j].filename) = {}
         /\ PostsTo(prFiles[j].filename) = {}
         /\ DetectionsOf(prFiles[j].filename) = {}
         /\ \A i \in DOMAIN files : files[i] # prFiles[j]
  /\ (Clean /\ Len(prFiles) = 2) =>
       \A j, k \in DOMAIN prFiles :
         (Excluded(prFiles[j]) /\ ~Excluded(prFiles[k]) /\ prFiles[k].patch # None) =>
           /\ {calls[n].idx : n \in CallsOf("model")} = {1}
           /\ Cardinality(CallsOf("post")) = 1
           /\ \A p \in CallsOf("post") :
                calls[p].path = prFiles[k].filename /\ calls[p].status = "ok"

C14_Witness ==
  /\ Clean
  /\ Len(prFiles) = 2
  /\ Excluded(prFiles[1])
  /\ prFiles[1].patch # None
  /\ Cardinality(CallsOf("post")) = 1
  /\ Oks(PostsTo(prFiles[2].filename)) # {}

\* C15: after a failed model call, whatever the kind of the failure, the
\* decision is the one the number of attempts made for the file gives: with
\* fewer than 3 attempts made the call is retried, with 3 the error is
\* propagated; so the same outcomes give the same invocations and decisions
\* for transient and for permanent failures.
C15_KindBlindRetry ==
  (calls # <<>> /\ calls[LastCall].op = "model" /\ calls[LastCall].status = "err") =>
    LET made == Cardinality(CallsFor("model", cur))
    IN  /\ retryState.input \in ErrorKinds
        /\ \A kind \in ErrorKinds :
             retryState.input = kind =>
               /\ made < 3 => (pc = "model" /\ exit = None /\ retryState.attempt = made + 1)
               /\ made >= 3 => (made = 3 /\ pc \in {"exit", "done"}
                                /\ exit = Fail(<<"error", LastCall>>))

C15_Witness ==
  /\ pc = "await_model"
  /\ Cardinality(CallsFor("model", cur)) = 3
  /\ retryState.input = "permanent"
  /\ retryState.attempt = 3

\* a failure was propagated: the listing or a posting failed, a detection
\* failed, or the model failed three times for a file
Propagated ==
  \/ Errs(CallsOf("list") \cup CallsOf("post")) # {}
  \/ \E k \in DOMAIN detections : detectLanguage(detections[k]) = None
  \/ \E i \in DOMAIN files : Cardinality(Errs(CallsFor("model", i))) = 3

\* C16: at the end of a run the host is marked failed exactly when the event
\* is not pull_request or a failure was propagated; a pull_request run whose
\* calls all succeed within the retry budget ends with no failed status; a
\* failed run has the cause as its only message, and nothing is reported
\* before the end of a pull_request run.
C16_FailedIffFailure ==
  /\ Len(failed) <= 1
  /\ (eventName = "pull_request" /\ pc # "done") => failed = <<>>
  /\ pc = "done" =>
       /\ failed # <<>> <=> (eventName # "pull_request" \/ Propagated)
       /\ (eventName = "pull_request" /\ ~Propagated) => (exit = Success /\ failed = <<>>)
       /\ (eventName = "pull_request" /\ Propagated) =>
            (ExitFailed /\ failed = <<CauseToString(exit[1])>>)

C16_Witness ==
  /\ Clean
  /\ failed = <<>>
  /\ Cardinality(Errs(CallsOf("model"))) >= 3
  /\ Cardinality(Oks(CallsOf("post"))) >= 2

\* C17: a comment is posted for a file only after a model call for that file
\* succeeded, with that call's text as body and the file's name as path; the
\* posting is invoked at most once per file, and a failed posting is the last
\* call of the run, whose failure it is.
C17_PostAfterReviewOnce ==
  /\ \A p \in CallsOf("post") : calls[p].idx \in DOMAIN files
  /\ \A i \in DOMAIN files :
       LET ps == CallsFor("post", i)
       IN  /\ Cardinality(ps) <= 1
           /\ \A p \in ps :
                /\ \E m \in Oks(CallsFor("model", i)) :
                     m < p /\ calls[p].body = calls[m].value
                /\ calls[p].path = files[i].filename
                /\ calls[p].status = "err" =>
                     /\ p = Len(calls)
                     /\ exit = Fail(<<"error", p>>)
                     /\ pc \in {"exit", "done"}
                     /\ pc = "done" => failed = <<CauseToString(exit[1])>>

C17_Witness ==
  /\ pc = "done"
  /\ Oks(CallsFor("post", 1)) # {}
  /\ Errs(CallsFor("post", 2)) # {}
  /\ Errs(CallsFor("model", 2)) # {}
  /\ Len(files) = 3

\* the paths of the comments posted, in the order of their posting
PostedPaths ==
  LET posted == SelectSeq(calls, LAMBDA c : c.op = "post" /\ c.status = "ok")
  IN  [k \in DOMAIN posted |-> posted[k].path]

\* the position in files of the file at which the run failed: the file of
\* the failed call, or the last file passed to the language detection
FailedFile ==
  IF exit = Fail(<<"NoSuchElementException">>) THEN Len(detections)
  ELSE IF exit[1].error[2] \in DOMAIN calls THEN calls[exit[1].error[2]].idx
  ELSE 0

C18_State ==
  (pc = "done" /\ eventName = "pull_request" /\ ExitFailed) =>
    PostedPaths = [k \in 1..(FailedFile - 1) |-> files[k].filename]

\* C18: a posted comment is never removed or changed afterwards, and when a
\* run ends failed at the i-th reviewable file the comments posted are
\* exactly those of the reviewable files 1..i-1, in list order.
C18_NoRollback ==
  /\ []C18_State
  /\ [][\A n \in DOMAIN calls :
          (calls[n].op = "post" /\ calls[n].status = "ok") =>
            (n \in DOMAIN calls' /\ calls'[n] = calls[n])]_vars

C18_Witness ==
  /\ pc = "done"
  /\ ExitFailed
  /\ Len(files) = 3
  /\ FailedFile = 3
  /\ Len(PostedPaths) = 2
  /\ PostedPaths[1] # PostedPaths[2]

\* C19: in codeReviewForChunks the request of a chunk is issued at most
\* once and outside any retry policy; a failed request is the last request
\* issued, so no chunk after it is requested, and it fails the whole review:
\* the review never succeeds with the results of only some chunks.
C19_ChunksNotRetried ==
  /\ retryState.attempt = 0
  /\ \A n \in DOMAIN calls :
       /\ calls[n].op = "model"
       /\ calls[n].idx = n
       /\ calls[n].status = "err" =>
            /\ n = Len(calls)
            /\ pc = "returned"
            /\ exit = Fail(<<"error", n>>)
  /\ \A i \in 1..Len(HunkLines) : Cardinality(CallsFor("model", i)) <= 1
  /\ exit = Success => (Errs(DOMAIN calls) = {} /\ Len(results) = Len(HunkLines))

C19_Witness ==
  /\ pc = "returned"
  /\ Len(HunkLines) = 3
  /\ Len(calls) = 2
  /\ calls[1].status = "ok"
  /\ calls[2].status = "err"
  /\ Len(results) = 1
  /\ exit = Fail(<<"error", 2>>)

C20_State ==
  /\ \A i \in DOMAIN files :
       /\ Cardinality(CallsFor("model", i)) <= 3
       /\ Cardinality(CallsFor("post", i)) <= 1
  /\ \A n \in CallsOf("model") \cup CallsOf("post") : calls[n].idx \in DOMAIN files
  /\ Cardinality(CallsOf("list")) <= 1
  /\ pc = "done" => (exit # None /\ InFlight = {})

\* C20: when every capability call returns, the run reaches its end state,
\* completed or failed, and on the way makes at most 3 model invocations and
\* 1 comment posting per reviewable file.
C20_Terminates ==
  /\ []C20_State
  /\ <>(pc = "done")

C20_Witness ==
  /\ pc = "done"
  /\ Len(files) = MaxFiles
  /\ \A i \in DOMAIN files :
       /\ Cardinality(CallsFor("model", i)) = 3
       /\ Cardinality(CallsFor("post", i)) = 1

====
